---- MODULE Spec2Model ----
(***************************************************************************)
(* Model of the on-device inference lifecycle of Noschen                   *)
(* (src/main/llm/localLLM.ts) and of the ai:analyze / ai:checkConnection   *)
(* handlers built on it (src/main/main.ts).                                *)
(*                                                                         *)
(* Execution model: the Electron main process is one JavaScript event      *)
(* loop.  A handler runs synchronously until it awaits a promise that is   *)
(* settled by work outside this repository (node-llama-cpp, fetch); only   *)
(* there can another handler run or time pass.  An await of one of this    *)
(* repository's own async functions that returned without such an await    *)
(* continues in a microtask, before any other task.  `cur` is the process  *)
(* that owns the event loop, NoProc between tasks.                         *)
(***************************************************************************)
EXTENDS Integers, Sequences, FiniteSets, TLC

\* ---------------------------------------------------------------- bounds
MaxTime == 6000
\* longest text and largest budget handed to truncateToTokenBudget on its own
MaxChars == 40
MaxBudget == 8

\* ------------------------------------------------------ program constants
INIT_RETRY_DELAY == 5000
RESPONSE_TIME_THRESHOLD == 2000
MIN_MODEL_SIZE_MB == 100
SMALL_MAX_CONTENT_TOKENS == 800
LARGE_MAX_CONTENT_TOKENS == 2000
FULL_CONTENT_TOKENS == 1500
LAST_PORTION_CHARS == 2000
CHARS_PER_TOKEN == 4
ANALYSIS_DELAY == 2000
SAVE_DELAY == 1000
MIN_ANALYSIS_CHARS == 50

\* the renderer's requests (Renderer) and the application's own events (App)
Renderer == "renderer"
App == "app"
Procs == {Renderer, App}
TickStep == MaxTime \div 3
NoProc == "none"
NullModel == 0
NoError == "null"

\* Error texts
ErrNotFound == "Model file not found"
ErrCorrupted == "Model file appears corrupted (too small)"
ErrInProgress == "Initialization already in progress"
ErrImport == "import failed"
ErrRuntime == "getLlama failed"
ErrLoad == "loadModel failed"
ErrNullModel == "Cannot read properties of null"
ErrContext == "Failed to create context"
ErrSequence == "No sequences left"
ErrPrompt == "prompt failed"
ErrDispose == "dispose failed"
ErrStat == "ENOENT: no such file or directory, stat"
ErrOllama == "Ollama request failed"
ErrMistral == "Mistral request failed"
ErrFallback == "Mistral API fallback failed"
ErrAnalysis == "AI analysis failed. Check your settings."

\* Sizes (in MB) the model file on disk can have; 0 = the file is absent.
ModelFileSizes == {0, 50, 380}

VARIABLES
    \* localLLM.ts module state
    llamaModule, llama, model, isInitialized, isInitializing, initError,
    lastInitAttempt,
    \* main.ts module state
    useAdaptiveChunking, lastResponseTime,
    \* environment
    now, modelFileMB,
    \* event loop and call frames
    cur, stack, pc, rv,
    \* per-call locals of initializeLocalLLM, generateLocalResponse, ai:analyze
    ini, gen, req,
    \* the Editor component of the renderer (Editor.tsx)
    editor,
    \* a call of truncateToTokenBudget: its arguments and its result
    trunc

llmVars == <<llamaModule, llama, model, isInitialized, isInitializing, initError, lastInitAttempt>>
chunkVars == <<useAdaptiveChunking, lastResponseTime>>
envVars == <<now, modelFileMB>>
frameVars == <<cur, stack, pc, rv>>
vars == <<llamaModule, llama, model, isInitialized, isInitializing, initError, lastInitAttempt,
          useAdaptiveChunking, lastResponseTime, now, modelFileMB, cur, stack, pc, rv,
          ini, gen, req, editor, trunc>>
mainVars == <<llmVars, chunkVars, modelFileMB, frameVars, ini, gen, req>>

\* ------------------------------------------------------------ result values
R(ok, error) == [ok |-> ok, error |-> error]
NoRet == [ok |-> FALSE, error |-> "pending"]
\* an exception (a rejected promise) that reaches the awaiting caller
Thrown(msg) == [ok |-> FALSE, error |-> msg, thrown |-> TRUE]
IsThrown(val) == "thrown" \in DOMAIN val

IniIdle == [errorMessage |-> NoError, attempt |-> 0, saw |-> 0, loads |-> 0,
            entry |-> "none", failedAt |-> 0, fileMB |-> 0, avail |-> NoRet, ret |-> NoRet]
GenIdle == [localContext |-> FALSE, session |-> FALSE, result |-> NoRet,
            created |-> 0, disposed |-> 0, prompts |-> 0, after |-> FALSE, handle |-> NullModel,
            ret |-> NoRet]
ReqIdle == [handler |-> "none", provider |-> "none", apiKey |-> "", content |-> <<>>, h2 |-> "",
            userPrompt |-> <<>>, chunked |-> FALSE, startTime |-> 0,
            primary |-> "none", fallbacks |-> <<>>, errors |-> <<>>,
            during |-> 0, released |-> 0, prior |-> 0, swallowed |-> FALSE,
            completedAt |-> 0, passed |-> <<>>]

\* ------------------------------------------------------------ call frames
Top(p) == stack[p][Len(stack[p])]

\* the label at which `caller` continues once its call of `callee` returned
Cont(caller, callee) ==
    CASE caller = "analyze" /\ callee = "init" -> "A_init"
      [] caller = "analyze" /\ callee = "gen" -> "A_gen"
      [] caller = "analyze" /\ callee = "mistral" -> "A_fallback"
      [] caller = "check" /\ callee = "init" -> "C_init"
      [] caller = "gen" /\ callee = "init" -> "G_init"
      [] caller = "init" /\ callee = "dispose" -> "I_cleanup"
      [] caller = "quit" /\ callee = "dispose" -> "Q_disposed"
      [] OTHER -> "done"

Entry(fn) ==
    CASE fn = "init" -> "I_entry"
      [] fn = "gen" -> "G_entry"
      [] fn = "dispose" -> "D_entry"
      [] fn = "mistral" -> "M_entry"
      [] OTHER -> "done"

\* p calls the async function fn: its body starts in the same task
Call(p, fn) ==
    /\ stack' = [stack EXCEPT ![p] = Append(@, fn)]
    /\ pc' = [pc EXCEPT ![p] = Entry(fn)]
    /\ cur' = p
    /\ UNCHANGED rv

\* the frames that are handlers registered in main.ts
HandlerFrames == {"analyze", "check", "quit"}

\* the top function of p returns val to the function that awaits it.  A
\* handler's reply is delivered in the task in which the handler returns; the
\* result of a direct call of an export stays with its caller
Ret(p, val) ==
    LET s == stack[p] n == Len(stack[p]) IN
    /\ rv' = [rv EXCEPT ![p] = val]
    /\ IF n = 1
       THEN /\ stack' = [stack EXCEPT ![p] = <<>>]
            /\ pc' = [pc EXCEPT ![p] = "done"]
            /\ cur' = IF s[1] \in HandlerFrames THEN p ELSE NoProc
       ELSE /\ stack' = [stack EXCEPT ![p] = SubSeq(s, 1, n - 1)]
            /\ pc' = [pc EXCEPT ![p] = Cont(s[n - 1], s[n])]
            /\ cur' = p

\* p awaits a promise settled outside this repository
Suspend(p, label) ==
    /\ pc' = [pc EXCEPT ![p] = label]
    /\ cur' = NoProc
    /\ UNCHANGED <<stack, rv>>

\* p is suspended at label and its promise settles / p continues at label
AtAwait(p, label) == cur = NoProc /\ pc[p] = label
AtSync(p, label) == cur = p /\ pc[p] = label

\* ------------------------------------------------- checkLocalLLMAvailable
\* variant: only the existence of the file is checked, not its size
checkLocalLLMAvailable_noSizeCheck ==
    IF modelFileMB = 0 THEN R(FALSE, ErrNotFound) ELSE R(TRUE, NoError)

\* lines 101-122
checkLocalLLMAvailable ==
    IF modelFileMB = 0 THEN R(FALSE, ErrNotFound)
    ELSE IF modelFileMB < MIN_MODEL_SIZE_MB THEN R(FALSE, ErrCorrupted)
    ELSE R(TRUE, NoError)

\* scripts/download-model.js writes the model file in place: absent, then
\* partial, then complete; a failed download deletes the partial file
DownloadNext(sizeMB) ==
    IF sizeMB = 0 THEN {50} ELSE IF sizeMB = 50 THEN {0, 380} ELSE {}

\* the outcomes of one call of checkLocalLLMAvailable: its result and the
\* file it leaves behind.  fs.statSync (line 111) throws when the download
\* script deletes a partial file after fs.existsSync (line 104) has seen it
CheckOutcomes ==
    {[result |-> checkLocalLLMAvailable, file |-> modelFileMB]}
    \cup (IF modelFileMB # 0 /\ 0 \in DownloadNext(modelFileMB)
          THEN {[result |-> Thrown(ErrStat), file |-> 0]} ELSE {})

\* localLLM.ts lines 286-307: getLocalLLMStatus()
getLocalLLMStatus ==
    [initialized |-> isInitialized, initializing |-> isInitializing, error |-> initError]

\* ------------------------------------------------------ lifecycle (derived)
LifecycleState ==
    IF isInitializing THEN "Initializing"
    ELSE IF isInitialized /\ model # NullModel THEN "Ready"
    ELSE IF initError # NoError THEN "Failed"
    ELSE "Uninitialized"

\* processes inside the try block of initializeLocalLLM (lines 140-195)
LoadLabels == {"I_avail", "I_import", "I_llama", "I_load", "I_cleanup"}
InInit(p) == \E i \in 1..Len(stack[p]) : stack[p][i] = "init"
Loading(p) ==
    \/ pc[p] \in LoadLabels
    \/ InInit(p) /\ Top(p) = "dispose"
Loaders == {p \in Procs : Loading(p)}

\* identities of load attempts (and of the model handle an attempt yields):
\* an identity is reused only when nothing refers to it any more
IdPool == 1..(6 * Cardinality(Procs) + 2)
Referenced ==
    {model} \cup {ini[p].attempt : p \in Procs} \cup {ini[p].saw : p \in Procs}
            \cup {req[p].during : p \in Procs} \cup {req[p].released : p \in Procs}
            \cup {req[p].prior : p \in Procs} \cup {gen[p].handle : p \in Procs}
NewId == CHOOSE i \in IdPool \ Referenced : \A j \in IdPool \ Referenced : i <= j
\* the attempt in progress, 0 when there is none
CurrentAttempt ==
    IF \E p \in Loaders : TRUE THEN ini[CHOOSE p \in Loaders : TRUE].attempt ELSE 0

\* ---------------------------------------------------- initializeLocalLLM
\* variant: the guard against concurrent initialization is missing
InitBusy_never == FALSE

\* line 126
InitBusy == isInitializing
\* variant: the retry delay is compared in seconds instead of milliseconds
RecentlyFailed_seconds ==
    initError # NoError /\ now - lastInitAttempt < INIT_RETRY_DELAY \div 1000

\* variant: a cached failure is never retried
RecentlyFailed_forever == initError # NoError

\* line 131
RecentlyFailed == initError # NoError /\ now - lastInitAttempt < INIT_RETRY_DELAY
\* line 136
AlreadyInitialized == isInitialized /\ model # NullModel

IniReturn(p, val) ==
    /\ ini' = [ini EXCEPT ![p].ret = val]
    /\ Ret(p, val)

\* variant: the cached failure is consulted before the in-progress flag
InitGuard_cachedFirst ==
    IF RecentlyFailed THEN "cached"
    ELSE IF InitBusy THEN "busy"
    ELSE IF AlreadyInitialized THEN "ready"
    ELSE "start"

\* lines 126-138: which of the three early returns applies, if any
InitGuard ==
    IF InitBusy THEN "busy"
    ELSE IF RecentlyFailed THEN "cached"
    ELSE IF AlreadyInitialized THEN "ready"
    ELSE "start"

\* lines 124-145: the guards, then the start of an attempt up to the
\* awaited availability check (which does no asynchronous work)
I_entry(p) ==
    /\ AtSync(p, "I_entry")
    /\ LET e == [IniIdle EXCEPT !.entry = LifecycleState, !.saw = CurrentAttempt,
                                !.fileMB = modelFileMB]
           early == CASE InitGuard = "busy" -> R(FALSE, ErrInProgress)
                      [] InitGuard = "cached" -> R(FALSE, initError)
                      [] OTHER -> R(TRUE, NoError)
       IN IF InitGuard # "start" THEN
               /\ ini' = [ini EXCEPT ![p] = [e EXCEPT !.ret = early]]
               /\ Ret(p, early)
               /\ UNCHANGED <<llmVars, envVars>>
          ELSE
               /\ isInitializing' = TRUE
               /\ lastInitAttempt' = now
               /\ \E o \in CheckOutcomes :
                    /\ ini' = [ini EXCEPT ![p] = [e EXCEPT !.attempt = NewId,
                                                           !.avail = o.result]]
                    /\ rv' = [rv EXCEPT ![p] = o.result]
                    /\ modelFileMB' = o.file
               /\ pc' = [pc EXCEPT ![p] = "I_avail"]
               /\ UNCHANGED <<cur, stack, now>>
               /\ UNCHANGED <<llamaModule, llama, model, isInitialized, initError>>
    /\ UNCHANGED <<chunkVars, gen, req>>
    /\ UNCHANGED <<editor, trunc>>

\* variant: no catch block, the error leaves initializeLocalLLM as thrown
Catch_rethrows(p, msg) ==
    /\ UNCHANGED <<initError, isInitialized>>
    /\ ini' = [ini EXCEPT ![p].ret = Thrown(msg)]
    /\ Ret(p, Thrown(msg))

\* lines 183-190: the catch block up to the call of disposeLocalLLM
Catch(p, msg) ==
    /\ initError' = msg
    /\ isInitialized' = FALSE
    /\ ini' = [ini EXCEPT ![p].errorMessage = msg, ![p].failedAt = now]
    /\ Call(p, "dispose")

\* variant: a failed loadModel is silently retried once inside the call
CallLoadModel_retry(p) ==
    /\ ini' = [ini EXCEPT ![p].loads = @ + 2]
    /\ Suspend(p, "I_load")

\* lines 172-175: llama.loadModel is called and awaited
CallLoadModel(p) ==
    /\ ini' = [ini EXCEPT ![p].loads = @ + 1]
    /\ Suspend(p, "I_load")

\* lines 146-159: the availability check threw or reported the file
\* unusable (both reach the catch block); import of node-llama-cpp if needed
I_avail(p) ==
    /\ AtSync(p, "I_avail")
    /\ IF ~rv[p].ok THEN
            /\ Catch(p, rv[p].error)
            /\ UNCHANGED <<llamaModule, llama, model, isInitializing, lastInitAttempt>>
       ELSE IF ~llamaModule THEN
            /\ Suspend(p, "I_import")
            /\ UNCHANGED <<llmVars, ini>>
       ELSE IF ~llama THEN
            /\ Suspend(p, "I_llama")
            /\ UNCHANGED <<llmVars, ini>>
       ELSE
            /\ CallLoadModel(p)
            /\ UNCHANGED <<llmVars>>
    /\ UNCHANGED <<chunkVars, envVars, gen, req>>
    /\ UNCHANGED <<editor, trunc>>

\* lines 158-167: dynamicImport settles
I_import(p) ==
    /\ AtAwait(p, "I_import")
    /\ \E ok \in BOOLEAN :
        IF ~ok THEN
            /\ Catch(p, ErrImport)
            /\ UNCHANGED <<llamaModule, llama, model, isInitializing, lastInitAttempt>>
        ELSE
            /\ llamaModule' = TRUE
            /\ IF ~llama THEN Suspend(p, "I_llama") /\ UNCHANGED ini
               ELSE CallLoadModel(p)
            /\ UNCHANGED <<llama, model, isInitialized, isInitializing, initError,
                           lastInitAttempt>>
    /\ UNCHANGED <<chunkVars, envVars, gen, req>>
    /\ UNCHANGED <<editor, trunc>>

\* lines 166-175: getLlama settles
I_llama(p) ==
    /\ AtAwait(p, "I_llama")
    /\ \E ok \in BOOLEAN :
        IF ~ok THEN
            /\ Catch(p, ErrRuntime)
            /\ UNCHANGED <<llamaModule, llama, model, isInitializing, lastInitAttempt>>
        ELSE
            /\ llama' = TRUE
            /\ CallLoadModel(p)
            /\ UNCHANGED <<llamaModule, model, isInitialized, isInitializing, initError,
                           lastInitAttempt>>
    /\ UNCHANGED <<chunkVars, envVars, gen, req>>
    /\ UNCHANGED <<editor, trunc>>

\* variant: the success path does not clear the cached error
I_load_keepsError(p) ==
    /\ AtAwait(p, "I_load")
    /\ \E ok \in BOOLEAN :
        IF ~ok THEN
            /\ Catch(p, ErrLoad)
            /\ UNCHANGED <<llamaModule, llama, model, isInitializing, lastInitAttempt>>
        ELSE
            /\ model' = ini[p].attempt
            /\ isInitialized' = TRUE
            /\ isInitializing' = FALSE
            /\ IniReturn(p, R(TRUE, NoError))
            /\ UNCHANGED <<llamaModule, llama, initError, lastInitAttempt>>
    /\ UNCHANGED <<chunkVars, envVars, gen, req>>
    /\ UNCHANGED <<editor, trunc>>

\* lines 172-182 and 193-195: loadModel settles; success path and finally
I_load(p) ==
    /\ AtAwait(p, "I_load")
    /\ \E ok \in BOOLEAN :
        IF ~ok THEN
            /\ Catch(p, ErrLoad)
            /\ UNCHANGED <<llamaModule, llama, model, isInitializing, lastInitAttempt>>
        ELSE
            /\ model' = ini[p].attempt
            /\ isInitialized' = TRUE
            /\ initError' = NoError
            /\ isInitializing' = FALSE
            /\ IniReturn(p, R(TRUE, NoError))
            /\ UNCHANGED <<llamaModule, llama, lastInitAttempt>>
    /\ UNCHANGED <<chunkVars, envVars, gen, req>>
    /\ UNCHANGED <<editor, trunc>>

\* variant: no finally block, the failure path leaves isInitializing set
I_cleanup_noFinally(p) ==
    /\ AtSync(p, "I_cleanup")
    /\ IniReturn(p, IF IsThrown(rv[p]) THEN rv[p] ELSE R(FALSE, ini[p].errorMessage))
    /\ UNCHANGED llmVars
    /\ UNCHANGED <<chunkVars, envVars, gen, req>>
    /\ UNCHANGED <<editor, trunc>>

\* lines 190-195: disposeLocalLLM returned; failure result and finally (an
\* exception thrown inside the catch block would leave through the finally)
I_cleanup(p) ==
    /\ AtSync(p, "I_cleanup")
    /\ isInitializing' = FALSE
    /\ IniReturn(p, IF IsThrown(rv[p]) THEN rv[p] ELSE R(FALSE, ini[p].errorMessage))
    /\ UNCHANGED <<llamaModule, llama, model, isInitialized, initError, lastInitAttempt>>
    /\ UNCHANGED <<chunkVars, envVars, gen, req>>
    /\ UNCHANGED <<editor, trunc>>

\* -------------------------------------------------------- disposeLocalLLM
\* variant: the flag is cleared but the reference to the model is kept
DisposeTail_keepsHandle(p) ==
    /\ model' = model
    /\ isInitialized' = FALSE
    /\ Ret(p, R(TRUE, NoError))

\* lines 281-283
DisposeTail(p) ==
    /\ model' = NullModel
    /\ isInitialized' = FALSE
    /\ Ret(p, R(TRUE, NoError))

\* the handle released by a disposeLocalLLM call of another caller that has
\* returned and whose effect is still in place, 0 when there is none
PriorRelease(p) ==
    LET done == {q \in Procs \ {p} : /\ pc[q] = "done" /\ req[q].handler = "dispose"
                                      /\ req[q].released # NullModel}
    IN IF done # {} /\ model = NullModel /\ ~isInitialized /\ ~isInitializing
       THEN req[CHOOSE q \in done : TRUE].released ELSE NullModel

\* lines 270-283: model.dispose() is awaited only when a model is held
D_entry(p) ==
    /\ AtSync(p, "D_entry")
    /\ req' = [req EXCEPT ![p].during = CurrentAttempt, ![p].released = model,
                          ![p].prior = PriorRelease(p)]
    /\ IF model # NullModel THEN
            /\ Suspend(p, "D_disposing")
            /\ UNCHANGED <<model, isInitialized>>
       ELSE DisposeTail(p)
    /\ UNCHANGED <<llamaModule, llama, isInitializing, initError, lastInitAttempt>>
    /\ UNCHANGED <<chunkVars, envVars, ini, gen>>
    /\ UNCHANGED <<editor, trunc>>

\* variant: no try/catch around model.dispose(), its rejection leaves
\* disposeLocalLLM before the reference is cleared
D_disposing_throws(p) ==
    /\ AtAwait(p, "D_disposing")
    /\ \E ok \in BOOLEAN :
        /\ req' = [req EXCEPT ![p].swallowed = @ \/ ~ok]
        /\ IF ok THEN DisposeTail(p)
           ELSE /\ UNCHANGED <<model, isInitialized>>
                /\ Ret(p, Thrown(ErrDispose))
    /\ UNCHANGED <<llamaModule, llama, isInitializing, initError, lastInitAttempt>>
    /\ UNCHANGED <<chunkVars, envVars, ini, gen>>
    /\ UNCHANGED <<editor, trunc>>

\* lines 275-283: model.dispose() settles; a rejection is logged and ignored
D_disposing(p) ==
    /\ AtAwait(p, "D_disposing")
    /\ \E ok \in BOOLEAN :
        /\ req' = [req EXCEPT ![p].swallowed = @ \/ ~ok]
        /\ DisposeTail(p)
    /\ UNCHANGED <<llamaModule, llama, isInitializing, initError, lastInitAttempt>>
    /\ UNCHANGED <<chunkVars, envVars, ini, gen>>
    /\ UNCHANGED <<editor, trunc>>

\* -------------------------------------------------- generateLocalResponse
GenReturn(p, val) ==
    /\ gen' = [gen EXCEPT ![p].ret = val]
    /\ Ret(p, val)

\* variant: the finally block disposes the session but not the context
GenFinally_leak(p, g0) ==
    LET g == [g0 EXCEPT !.handle = NullModel] IN
    IF g.session THEN
        /\ gen' = [gen EXCEPT ![p] = g]
        /\ Suspend(p, "G_dispSession")
    ELSE
        /\ gen' = [gen EXCEPT ![p] = [g EXCEPT !.ret = g.result]]
        /\ Ret(p, g.result)

\* lines 251-267: the finally block, given the result and locals reached;
\* the call no longer uses the model handle
GenFinally(p, g0) ==
    LET g == [g0 EXCEPT !.handle = NullModel] IN
    IF g.session THEN
        /\ gen' = [gen EXCEPT ![p] = g]
        /\ Suspend(p, "G_dispSession")
    ELSE IF g.localContext THEN
        /\ gen' = [gen EXCEPT ![p] = [g EXCEPT !.disposed = @ + 1]]
        /\ Suspend(p, "G_dispCtx")
    ELSE
        /\ gen' = [gen EXCEPT ![p] = [g EXCEPT !.ret = g.result]]
        /\ Ret(p, g.result)

\* lines 217-224: destructuring llamaModule and calling model.createContext
\* throw a TypeError when the module or the model is null
GenTry(p, g) ==
    IF ~llamaModule \/ model = NullModel
    THEN GenFinally(p, [g EXCEPT !.result = R(FALSE, ErrNullModel)])
    ELSE /\ gen' = [gen EXCEPT ![p] = [g EXCEPT !.handle = model]]
         /\ Suspend(p, "G_ctx")

\* line 207
NeedsInit == ~isInitialized \/ model = NullModel

\* another caller holds the error of a generation that ran on the handle
\* now held
PriorGenFailure(p) ==
    \E q \in Procs \ {p} :
        /\ pc[q] = "done" /\ gen[q].ret # NoRet /\ ~gen[q].ret.ok
        /\ gen[q].created > 0 /\ ini[q].entry = "none"

\* lines 198-224
G_entry(p) ==
    /\ AtSync(p, "G_entry")
    /\ LET g == [GenIdle EXCEPT !.after = PriorGenFailure(p)] IN
       IF NeedsInit
       THEN /\ gen' = [gen EXCEPT ![p] = g]
            /\ Call(p, "init")
       ELSE GenTry(p, g)
    /\ UNCHANGED <<llmVars, chunkVars, envVars, ini, req>>
    /\ UNCHANGED <<editor, trunc>>

\* variant: the result of the readiness step is not examined
G_init_ignoresFailure(p) ==
    /\ AtSync(p, "G_init")
    /\ GenTry(p, gen[p])
    /\ UNCHANGED <<llmVars, chunkVars, envVars, ini, req>>
    /\ UNCHANGED <<editor, trunc>>

\* lines 208-224: initializeLocalLLM returned to generateLocalResponse (the
\* await is outside the try block)
G_init(p) ==
    /\ AtSync(p, "G_init")
    /\ IF IsThrown(rv[p])
       THEN GenReturn(p, rv[p])
       ELSE IF ~rv[p].ok
       THEN GenReturn(p, R(FALSE, rv[p].error))
       ELSE GenTry(p, gen[p])
    /\ UNCHANGED <<llmVars, chunkVars, envVars, ini, req>>
    /\ UNCHANGED <<editor, trunc>>

\* lines 222-241: createContext settles; getSequence and the session
\* constructor can throw; then session.prompt is called
G_ctx(p) ==
    /\ AtAwait(p, "G_ctx")
    /\ \E outcome \in {"ctxThrows", "seqThrows", "ok"} :
        CASE outcome = "ctxThrows" ->
                GenFinally(p, [gen[p] EXCEPT !.result = R(FALSE, ErrContext)])
          [] outcome = "seqThrows" ->
                GenFinally(p, [gen[p] EXCEPT !.localContext = TRUE, !.created = @ + 1,
                                             !.result = R(FALSE, ErrSequence)])
          [] outcome = "ok" ->
                /\ gen' = [gen EXCEPT ![p].localContext = TRUE, ![p].created = @ + 1,
                                      ![p].session = TRUE, ![p].prompts = @ + 1]
                /\ Suspend(p, "G_prompt")
    /\ UNCHANGED <<llmVars, chunkVars, envVars, ini, req>>
    /\ UNCHANGED <<editor, trunc>>

\* variant: a failed prompt is retried once inside the call
G_prompt_retries(p) ==
    /\ AtAwait(p, "G_prompt")
    /\ \E ok \in BOOLEAN :
        IF ~ok /\ gen[p].prompts < 2
        THEN /\ gen' = [gen EXCEPT ![p].prompts = @ + 1]
             /\ Suspend(p, "G_prompt")
        ELSE GenFinally(p, [gen[p] EXCEPT !.result = IF ok THEN R(TRUE, NoError)
                                                         ELSE R(FALSE, ErrPrompt)])
    /\ UNCHANGED <<llmVars, chunkVars, envVars, ini, req>>
    /\ UNCHANGED <<editor, trunc>>

\* variant: a failed prompt also drops the model handle
G_prompt_resets(p) ==
    /\ AtAwait(p, "G_prompt")
    /\ \E ok \in BOOLEAN :
        /\ GenFinally(p, [gen[p] EXCEPT !.result = IF ok THEN R(TRUE, NoError)
                                                       ELSE R(FALSE, ErrPrompt)])
        /\ model' = IF ok THEN model ELSE NullModel
        /\ isInitialized' = (ok /\ isInitialized)
    /\ UNCHANGED <<llamaModule, llama, isInitializing, initError, lastInitAttempt>>
    /\ UNCHANGED <<chunkVars, envVars, ini, req, editor, trunc>>

\* lines 238-256: session.prompt settles; the finally block begins
G_prompt(p) ==
    /\ AtAwait(p, "G_prompt")
    /\ \E ok \in BOOLEAN :
        GenFinally(p, [gen[p] EXCEPT !.result = IF ok THEN R(TRUE, NoError)
                                                    ELSE R(FALSE, ErrPrompt)])
    /\ UNCHANGED <<llmVars, chunkVars, envVars, ini, req>>
    /\ UNCHANGED <<editor, trunc>>

\* lines 255-263: session.dispose settles (a rejection is ignored)
G_dispSession(p) ==
    /\ AtAwait(p, "G_dispSession")
    /\ \E ok \in BOOLEAN :
        /\ req' = [req EXCEPT ![p].swallowed = @ \/ ~ok]
        /\ GenFinally(p, [gen[p] EXCEPT !.session = FALSE])
    /\ UNCHANGED <<llmVars, chunkVars, envVars, ini>>
    /\ UNCHANGED <<editor, trunc>>

\* lines 262-268: localContext.dispose settles (a rejection is ignored)
G_dispCtx(p) ==
    /\ AtAwait(p, "G_dispCtx")
    /\ \E ok \in BOOLEAN :
        /\ req' = [req EXCEPT ![p].swallowed = @ \/ ~ok]
        /\ GenFinally(p, [gen[p] EXCEPT !.session = FALSE, !.localContext = FALSE])
    /\ UNCHANGED <<llmVars, chunkVars, envVars, ini>>
    /\ UNCHANGED <<editor, trunc>>

\* ---------------------------------------------------------------- texts
\* A text is a sequence of segments [h, n]: n characters that begin with
\* the H2 heading h ("" when the segment begins inside running text).
Seg(h, n) == [h |-> h, n |-> n]
Dots == Seg("...", 3)
AnalyzePrefix == Seg("Analyze:", 10)

RECURSIVE TextLen(_)
TextLen(t) == IF t = <<>> THEN 0 ELSE t[1].n + TextLen(Tail(t))

\* text.substring(0, k)
RECURSIVE Substring(_, _)
Substring(t, k) ==
    IF t = <<>> \/ k <= 0 THEN <<>>
    ELSE IF t[1].n <= k THEN <<t[1]>> \o Substring(Tail(t), k - t[1].n)
    ELSE <<Seg(t[1].h, k)>>

\* text with its first d characters removed
RECURSIVE DropChars(_, _)
DropChars(t, d) ==
    IF t = <<>> \/ d <= 0 THEN t
    ELSE IF t[1].n <= d THEN DropChars(Tail(t), d - t[1].n)
    ELSE <<Seg("", t[1].n - d)>> \o Tail(t)

\* text.slice(-k)
SliceLast(t, k) == DropChars(t, TextLen(t) - k)

\* localLLM.ts lines 310-313: Math.ceil(text.length / 4)
estimateTokens(t) == (TextLen(t) + CHARS_PER_TOKEN - 1) \div CHARS_PER_TOKEN

\* localLLM.ts lines 316-326.  targetLength is Math.floor of a product of
\* doubles; it is the integer quotient below for every text and budget used
\* in this module (the double product can fall one below the quotient only
\* for longer texts whose exact product is an integer)
truncateToTokenBudget(t, maxTokens) ==
    LET estimatedTokens == estimateTokens(t) IN
    IF estimatedTokens <= maxTokens THEN t
    ELSE LET targetLength == (TextLen(t) * maxTokens * 9) \div (estimatedTokens * 10)
         IN Substring(t, targetLength) \o <<Dots>>

\* main.ts lines 398-413
extractCurrentSection(content, currentH2) ==
    IF currentH2 = "" THEN content
    ELSE LET found == {i \in 1..Len(content) : content[i].h = currentH2} IN
         IF found # {}
         THEN <<content[CHOOSE i \in found : \A j \in found : i <= j]>>
         ELSE SliceLast(content, LAST_PORTION_CHARS)

\* variant: the excerpt is prepared for every provider
AnalysisContent_anyProvider(provider, content, h2, chunking) ==
    IF chunking
    THEN truncateToTokenBudget(extractCurrentSection(content, h2), SMALL_MAX_CONTENT_TOKENS)
    ELSE truncateToTokenBudget(content, FULL_CONTENT_TOKENS)

\* main.ts lines 419-433
AnalysisContent(provider, content, h2, chunking) ==
    LET isSmallModel == provider = "builtin"
        maxContentTokens == IF isSmallModel THEN SMALL_MAX_CONTENT_TOKENS
                            ELSE LARGE_MAX_CONTENT_TOKENS
    IN IF isSmallModel /\ chunking
       THEN truncateToTokenBudget(extractCurrentSection(content, h2), maxContentTokens)
       ELSE IF isSmallModel THEN truncateToTokenBudget(content, FULL_CONTENT_TOKENS)
       ELSE content

\* main.ts line 436 and line 476
UserPrompt(text) == <<AnalyzePrefix>> \o text

\* the notes and current sections the editor submits
ShortNote == <<Seg("Intro", 400), Seg("Methods", 800)>>
LongNote == <<Seg("Intro", 7000)>>
Inputs == { <<ShortNote, "Methods">>, <<LongNote, "">>, <<LongNote, "Methods">> }
Providers == {"builtin", "ollama", "mistral"}
ApiKeys == {"", "sk-key"}

\* ------------------------------------------------------ callMistralAPI
\* main.ts lines 330-346: the fallback request is sent
CallMistralAPI(p, r, userPrompt) ==
    /\ req' = [req EXCEPT ![p] = [r EXCEPT !.fallbacks = Append(@, userPrompt)]]
    /\ stack' = [stack EXCEPT ![p] = Append(@, "mistral")]
    /\ pc' = [pc EXCEPT ![p] = "M_fetch"]
    /\ cur' = NoProc
    /\ UNCHANGED rv

\* main.ts lines 348-358: the response arrives, or fetch / parsing throws
M_fetch(p) ==
    /\ AtAwait(p, "M_fetch")
    /\ \E ok \in BOOLEAN :
        Ret(p, IF ok THEN R(TRUE, NoError) ELSE R(FALSE, ErrFallback))
    /\ UNCHANGED <<llmVars, chunkVars, envVars, ini, gen, req>>
    /\ UNCHANGED <<editor, trunc>>

\* ------------------------------------------------------------- ai:analyze
\* variant: the flag is switched on by a slow response and never off again
AdaptChunking_sticky(chunking, responseTime) ==
    IF responseTime > RESPONSE_TIME_THRESHOLD THEN TRUE ELSE chunking

\* main.ts lines 459-469
AdaptChunking(chunking, responseTime) ==
    IF responseTime > RESPONSE_TIME_THRESHOLD
    THEN (IF ~chunking THEN TRUE ELSE chunking)
    ELSE (IF chunking THEN FALSE ELSE chunking)

\* variant: the fallback reuses the prompt prepared for the on-device model
FallbackPrompt_excerpt(r) == r.userPrompt

\* main.ts line 476: the user prompt handed to callMistralAPI
FallbackPrompt(r) == UserPrompt(r.content)

\* main.ts line 471 / line 474
HasError(result) == ~result.ok
HasApiKey(r) == r.apiKey # ""

\* an error produced by a provider during the request
Err(by, error) == [by |-> by, error |-> error]

\* main.ts lines 547-550: the handler's catch block
OuterCatch(p, r, by, error) ==
    /\ req' = [req EXCEPT ![p] = [r EXCEPT !.primary = "threw",
                                           !.errors = Append(@, Err(by, error))]]
    /\ Ret(p, R(FALSE, ErrAnalysis))

\* the renderer invokes ai:analyze; line 416 loads the settings
StartAnalyzeWith(p, providers, apiKeys, inputs) ==
    /\ cur = NoProc /\ pc[p] = "idle"
    /\ \E provider \in providers, apiKey \in apiKeys, input \in inputs :
        req' = [req EXCEPT ![p] = [ReqIdle EXCEPT !.handler = "analyze", !.provider = provider,
                                       !.apiKey = apiKey, !.content = input[1], !.h2 = input[2]]]
    /\ stack' = [stack EXCEPT ![p] = <<"analyze">>]
    /\ pc' = [pc EXCEPT ![p] = "A_entry"]
    /\ cur' = p
    /\ UNCHANGED <<llmVars, chunkVars, envVars, rv, ini, gen>>
    /\ UNCHANGED <<editor, trunc>>

\* ai:analyze with any settings and note
StartAnalyze(p) == StartAnalyzeWith(p, Providers, ApiKeys, Inputs)
\* ai:analyze of one note with the on-device provider and no API key for a
\* fallback
StartAnalyzeOnDevice(p) == StartAnalyzeWith(p, {"builtin"}, {""}, {<<ShortNote, "Methods">>})

\* main.ts lines 416-447 (builtin), 494-504 (ollama), 517-533 (mistral)
A_entry(p) ==
    /\ AtSync(p, "A_entry")
    /\ LET r == [req[p] EXCEPT
                    !.chunked = useAdaptiveChunking,
                    !.userPrompt = UserPrompt(AnalysisContent(req[p].provider, req[p].content,
                                                              req[p].h2, useAdaptiveChunking))]
       IN IF r.provider = "builtin" THEN
               \E o \in CheckOutcomes :
                   LET availability == o.result IN
                   /\ modelFileMB' = o.file
                   /\ IF IsThrown(availability)
                      THEN OuterCatch(p, r, "builtin", availability.error)
                      ELSE IF ~availability.ok
                      THEN /\ req' = [req EXCEPT ![p] =
                                        [r EXCEPT !.primary = "unavailable",
                                                  !.errors = <<Err("builtin", availability.error)>>]]
                           /\ Ret(p, R(FALSE, availability.error))
                      ELSE /\ req' = [req EXCEPT ![p] = r]
                           /\ Call(p, "init")
          ELSE /\ req' = [req EXCEPT ![p] = r]
               /\ Suspend(p, IF r.provider = "ollama" THEN "A_ollama" ELSE "A_mistral")
               /\ UNCHANGED modelFileMB
    /\ UNCHANGED <<llmVars, chunkVars, now, ini, gen>>
    /\ UNCHANGED <<editor, trunc>>

\* main.ts lines 447-455
A_init(p) ==
    /\ AtSync(p, "A_init")
    /\ IF IsThrown(rv[p])
       THEN OuterCatch(p, req[p], "builtin", rv[p].error)
       ELSE IF ~rv[p].ok
       THEN /\ req' = [req EXCEPT ![p].primary = "initFailed",
                                  ![p].errors = Append(@, Err("builtin", rv[p].error))]
            /\ Ret(p, R(FALSE, rv[p].error))
       ELSE /\ req' = [req EXCEPT ![p].startTime = now]
            /\ Call(p, "gen")
    /\ UNCHANGED <<llmVars, chunkVars, envVars, ini, gen>>
    /\ UNCHANGED <<editor, trunc>>

\* variant: the start time is kept in one variable of the module, which a
\* request that starts later overwrites
ResponseTime_sharedStart(p) ==
    LET starts == {req[q].startTime : q \in Procs}
    IN now - (CHOOSE t \in starts : \A u \in starts : u <= t)

\* main.ts lines 453-456: Date.now() - startTime of the request
ResponseTime(p) == now - req[p].startTime

\* the generation of another analyze request is in progress
GenInFlight(q) ==
    /\ req[q].handler = "analyze"
    /\ pc[q] \in {"G_ctx", "G_prompt", "G_dispSession", "G_dispCtx"}

\* the requests as they are when p's generation has completed: a request
\* still generating notes the start and the completion time of p's
Passing(p) ==
    [q \in Procs |->
        IF q # p /\ GenInFlight(q)
        THEN [req[q] EXCEPT !.passed = <<req[p].startTime, now>>]
        ELSE req[q]]

\* main.ts lines 455-493
A_gen(p) ==
    /\ AtSync(p, "A_gen")
    /\ IF IsThrown(rv[p]) THEN
            /\ OuterCatch(p, req[p], "builtin", rv[p].error)
            /\ UNCHANGED chunkVars
       ELSE
            /\ lastResponseTime' = ResponseTime(p)
            /\ useAdaptiveChunking' = AdaptChunking(useAdaptiveChunking, ResponseTime(p))
            /\ IF HasError(rv[p]) THEN
                    LET r == [req[p] EXCEPT !.primary = "genFailed", !.completedAt = now,
                                            !.errors = Append(@, Err("builtin", rv[p].error))]
                    IN IF HasApiKey(req[p])
                       THEN CallMistralAPI(p, r, FallbackPrompt(req[p]))
                       ELSE /\ req' = [Passing(p) EXCEPT ![p] = r]
                            /\ Ret(p, R(FALSE, rv[p].error))
               ELSE /\ req' = [Passing(p) EXCEPT ![p].primary = "ok", ![p].completedAt = now]
                    /\ Ret(p, R(TRUE, NoError))
    /\ UNCHANGED <<llmVars, envVars, ini, gen>>
    /\ UNCHANGED <<editor, trunc>>

\* main.ts line 476: the fallback's result is the handler's result
A_fallback(p) ==
    /\ AtSync(p, "A_fallback")
    /\ IF IsThrown(rv[p])
       THEN OuterCatch(p, req[p], "mistral", rv[p].error)
       ELSE /\ req' = [req EXCEPT ![p].errors =
                            IF rv[p].ok THEN @ ELSE Append(@, Err("mistral", rv[p].error))]
            /\ Ret(p, rv[p])
    /\ UNCHANGED <<llmVars, chunkVars, envVars, ini, gen>>
    /\ UNCHANGED <<editor, trunc>>

\* main.ts lines 495-516 and 547-550: the local HTTP server answers or fails
A_ollama(p) ==
    /\ AtAwait(p, "A_ollama")
    /\ \E ok \in BOOLEAN :
        IF ok THEN /\ req' = [req EXCEPT ![p].primary = "ok"]
                   /\ Ret(p, R(TRUE, NoError))
        ELSE /\ req' = [req EXCEPT ![p].primary = "ollamaFailed",
                                   ![p].errors = Append(@, Err("ollama", ErrOllama))]
             /\ Ret(p, R(FALSE, ErrAnalysis))
    /\ UNCHANGED <<llmVars, chunkVars, envVars, ini, gen>>
    /\ UNCHANGED <<editor, trunc>>

\* main.ts lines 519-550: the cloud API answers or fails
A_mistral(p) ==
    /\ AtAwait(p, "A_mistral")
    /\ \E ok \in BOOLEAN :
        IF ok THEN /\ req' = [req EXCEPT ![p].primary = "ok"]
                   /\ Ret(p, R(TRUE, NoError))
        ELSE /\ req' = [req EXCEPT ![p].primary = "mistralFailed",
                                   ![p].errors = Append(@, Err("mistral", ErrMistral))]
             /\ Ret(p, R(FALSE, ErrAnalysis))
    /\ UNCHANGED <<llmVars, chunkVars, envVars, ini, gen>>
    /\ UNCHANGED <<editor, trunc>>

\* ----------------------------------------------------- ai:checkConnection
StartCheckConnection(p) ==
    /\ cur = NoProc /\ pc[p] = "idle"
    /\ \E provider \in Providers, apiKey \in ApiKeys :
        req' = [req EXCEPT ![p] = [ReqIdle EXCEPT !.handler = "check", !.provider = provider,
                                                  !.apiKey = apiKey]]
    /\ stack' = [stack EXCEPT ![p] = <<"check">>]
    /\ pc' = [pc EXCEPT ![p] = "C_entry"]
    /\ cur' = p
    /\ UNCHANGED <<llmVars, chunkVars, envVars, rv, ini, gen>>
    /\ UNCHANGED <<editor, trunc>>

\* main.ts lines 577-596
C_entry(p) ==
    /\ AtSync(p, "C_entry")
    /\ IF req[p].provider = "builtin" THEN
            \E o \in CheckOutcomes :
                LET availability == o.result IN
                /\ modelFileMB' = o.file
                \* a thrown check is caught at lines 597-600
                /\ IF ~availability.ok THEN Ret(p, R(FALSE, NoError)) ELSE Call(p, "init")
       ELSE /\ IF req[p].provider = "ollama" THEN Suspend(p, "C_ollama")
               ELSE Ret(p, R(HasApiKey(req[p]), NoError))
            /\ UNCHANGED modelFileMB
    /\ UNCHANGED <<llmVars, chunkVars, now, ini, gen, req>>
    /\ UNCHANGED <<editor, trunc>>

\* main.ts lines 588-589
C_init(p) ==
    /\ AtSync(p, "C_init")
    /\ Ret(p, R(rv[p].ok, NoError))
    /\ UNCHANGED <<llmVars, chunkVars, envVars, ini, gen, req>>
    /\ UNCHANGED <<editor, trunc>>

\* main.ts lines 591-592 and 597-600
C_ollama(p) ==
    /\ AtAwait(p, "C_ollama")
    /\ \E ok \in BOOLEAN : Ret(p, R(ok, NoError))
    /\ UNCHANGED <<llmVars, chunkVars, envVars, ini, gen, req>>
    /\ UNCHANGED <<editor, trunc>>

\* ------------------------------------------- calls of the module's exports
StartExport(p, fn) ==
    /\ cur = NoProc /\ pc[p] = "idle"
    /\ req' = [req EXCEPT ![p] = [ReqIdle EXCEPT !.handler = fn]]
    /\ stack' = [stack EXCEPT ![p] = <<fn>>]
    /\ pc' = [pc EXCEPT ![p] = Entry(fn)]
    /\ cur' = p
    /\ UNCHANGED <<llmVars, chunkVars, envVars, rv, ini, gen>>
    /\ UNCHANGED <<editor, trunc>>

\* initializeLocalLLM() called on its own
StartInitialize(p) == StartExport(p, "init")
\* generateLocalResponse() called on its own
StartGenerate(p) == StartExport(p, "gen")
\* disposeLocalLLM() called on its own
StartDispose(p) == StartExport(p, "dispose")

\* ------------------------------------------------- app.on('before-quit')
\* main.ts lines 616-617
StartQuit(p) ==
    /\ cur = NoProc /\ pc[p] = "idle"
    /\ req' = [req EXCEPT ![p] = [ReqIdle EXCEPT !.handler = "quit"]]
    /\ stack' = [stack EXCEPT ![p] = <<"quit", "dispose">>]
    /\ pc' = [pc EXCEPT ![p] = "D_entry"]
    /\ cur' = p
    /\ UNCHANGED <<llmVars, chunkVars, envVars, rv, ini, gen>>
    /\ UNCHANGED <<editor, trunc>>

\* main.ts lines 617-618
Q_disposed(p) ==
    /\ AtSync(p, "Q_disposed")
    /\ Ret(p, rv[p])
    /\ UNCHANGED <<llmVars, chunkVars, envVars, ini, gen, req>>
    /\ UNCHANGED <<editor, trunc>>

\* the caller has consumed the handler's result
Finish(p) ==
    /\ cur \in {p, NoProc} /\ pc[p] = "done"
    /\ cur' = NoProc
    /\ pc' = [pc EXCEPT ![p] = "idle"]
    /\ rv' = [rv EXCEPT ![p] = NoRet]
    /\ ini' = [ini EXCEPT ![p] = IniIdle]
    /\ gen' = [gen EXCEPT ![p] = GenIdle]
    /\ req' = [req EXCEPT ![p] = ReqIdle]
    /\ UNCHANGED <<llmVars, chunkVars, envVars, stack>>
    /\ UNCHANGED <<editor, trunc>>

\* ------------------------------------------------------------ environment
\* the clock advances between tasks
Tick ==
    /\ cur = NoProc
    /\ now + TickStep <= MaxTime
    /\ now' = now + TickStep
    /\ UNCHANGED <<llmVars, chunkVars, modelFileMB, frameVars, ini, gen, req>>
    /\ UNCHANGED <<editor, trunc>>

\* scripts/download-model.js makes progress between two tasks
Download ==
    /\ cur = NoProc
    /\ modelFileMB' \in DownloadNext(modelFileMB)
    /\ UNCHANGED <<llmVars, chunkVars, now, frameVars, ini, gen, req>>
    /\ UNCHANGED <<editor, trunc>>

\* ------------------------------------------------- Editor.tsx (renderer)
\* An html document of the editor: its name and the length of its trimmed text
Html(name, len) == [name |-> name, len |-> len]
EmptyNote == Html("empty", 0)
Htmls == {Html("stub", 20), Html("draftA", 400), Html("draftB", 800)}

NoTimer == 0
NoRequest == [html |-> EmptyNote, at |-> 0, changedAt |-> 0, changedTo |-> EmptyNote,
              superseded |-> EmptyNote, sent |-> FALSE]

\* lines 86-95: props, state and refs of the component; timers are the
\* pending timeouts of the window; the other fields record what it did
EditorInit ==
    [html |-> EmptyNote, lastContent |-> EmptyNote, aiConnected |-> FALSE,
     isAnalyzing |-> FALSE, analysisTimeoutRef |-> NoTimer, saveTimeoutRef |-> NoTimer,
     timers |-> {}, saved |-> EmptyNote, changedAt |-> 0, changedTo |-> EmptyNote,
     superseded |-> EmptyNote,
     request |-> NoRequest, outstanding |-> 0]

\* setTimeout(callback, delay): a new pending timeout and its handle
Timeout(id, kind, html, delay) == [id |-> id, kind |-> kind, html |-> html, due |-> now + delay]
\* the handle of a new timeout differs from every handle in use
NewTimer(timers, refs) ==
    LET used == {t.id : t \in timers} \cup refs
    IN CHOOSE i \in 1..(Cardinality(used) + 1) \ used :
            \A j \in 1..(Cardinality(used) + 1) \ used : i <= j

\* variant: the pending timeout is left in place
ClearTimeout_forgotten(timers, ref) == timers

\* clearTimeout(ref): the timeout with that handle, if still pending, is removed
ClearTimeout(timers, ref) == {t \in timers : t.id # ref}

\* lines 107-139 and 174: the onUpdate given to useEditor calls the
\* handleContentChange of the render it was created in.  @tiptap/react ^2.1.13
\* keeps either the callback of the render that created the editor or the one
\* of the latest render, so the props and state the handler reads are those
\* of the first render or the current ones; the refs are the same objects
Closures ==
    {[aiConnected |-> editor.aiConnected, lastContent |-> editor.lastContent],
     [aiConnected |-> EditorInit.aiConnected, lastContent |-> EditorInit.lastContent]}

\* lines 150-175: handleContentChange(html), called by the editor's onUpdate
HandleContentChange(html) ==
    \E seen \in Closures :
    LET e == editor
        afterSaveClear == IF e.saveTimeoutRef # NoTimer
                          THEN ClearTimeout(e.timers, e.saveTimeoutRef) ELSE e.timers
        saveId == NewTimer(afterSaveClear, {e.analysisTimeoutRef})
        withSave == afterSaveClear \cup {Timeout(saveId, "save", html, SAVE_DELAY)}
        afterClear == IF e.analysisTimeoutRef # NoTimer
                      THEN ClearTimeout(withSave, e.analysisTimeoutRef) ELSE withSave
        cancelled == {t \in withSave : t.id = e.analysisTimeoutRef}
        analyse == seen.aiConnected /\ html # seen.lastContent /\ html.len > MIN_ANALYSIS_CHARS
        analysisId == NewTimer(afterClear, {saveId})
    IN /\ cur = NoProc
       /\ html # e.html
       /\ editor' = [e EXCEPT
               !.html = html,
               !.saveTimeoutRef = saveId,
               !.analysisTimeoutRef = IF analyse THEN analysisId ELSE @,
               !.timers = IF analyse
                          THEN afterClear \cup {Timeout(analysisId, "analysis", html, ANALYSIS_DELAY)}
                          ELSE afterClear,
               !.lastContent = html,
               !.changedAt = now,
               !.changedTo = html,
               !.superseded = IF cancelled # {} THEN (CHOOSE t \in cancelled : TRUE).html
                              ELSE EmptyNote]
       /\ UNCHANGED <<mainVars, now, trunc>>

\* lines 167-169 and 177-195: the analysis timeout fires; analyzeContent
\* invokes ai:analyze with the content the timeout was set for
AnalysisTimeoutFires ==
    /\ cur = NoProc
    /\ \E t \in editor.timers :
        /\ t.kind = "analysis" /\ t.due <= now
        /\ editor' = [editor EXCEPT
                !.timers = @ \ {t},
                !.isAnalyzing = TRUE,
                !.outstanding = @ + 1,
                !.request = [html |-> t.html, at |-> now, changedAt |-> editor.changedAt,
                             changedTo |-> editor.changedTo,
                             superseded |-> editor.superseded, sent |-> TRUE]]
    /\ UNCHANGED <<mainVars, now, trunc>>

\* lines 196-211: the reply of ai:analyze arrives (or the call rejects)
AnalyzeReplyArrives ==
    /\ cur = NoProc
    /\ editor.outstanding > 0
    /\ editor' = [editor EXCEPT !.outstanding = @ - 1, !.isAnalyzing = FALSE]
    /\ UNCHANGED <<mainVars, now, trunc>>

\* lines 156-159: the save timeout fires
SaveTimeoutFires ==
    /\ cur = NoProc
    /\ \E t \in editor.timers :
        /\ t.kind = "save" /\ t.due <= now
        /\ editor' = [editor EXCEPT !.timers = @ \ {t}, !.saved = t.html]
    /\ UNCHANGED <<mainVars, now, trunc>>

\* lines 141-148: another note is shown; its content replaces the editor's
\* without an update event
NoteChanges(content) ==
    /\ cur = NoProc
    /\ content # editor.html
    /\ editor' = [editor EXCEPT !.html = content, !.lastContent = content]
    /\ UNCHANGED <<mainVars, now, trunc>>

\* line 86: the aiConnected prop follows the connection check of the parent
ConnectionChanges ==
    /\ cur = NoProc
    /\ editor' = [editor EXCEPT !.aiConnected = ~@]
    /\ UNCHANGED <<mainVars, now, trunc>>

\* ---------------------------------------------------------- specification
ProgramInit ==
    /\ llamaModule = FALSE /\ llama = FALSE /\ model = NullModel
    /\ isInitialized = FALSE /\ isInitializing = FALSE
    /\ initError = NoError /\ lastInitAttempt = 0
    /\ useAdaptiveChunking = FALSE /\ lastResponseTime = 0
    /\ now = 0 /\ modelFileMB \in ModelFileSizes
    /\ cur = NoProc
    /\ stack = [p \in Procs |-> <<>>]
    /\ pc = [p \in Procs |-> "idle"]
    /\ rv = [p \in Procs |-> NoRet]
    /\ ini = [p \in Procs |-> IniIdle]
    /\ gen = [p \in Procs |-> GenIdle]
    /\ req = [p \in Procs |-> ReqIdle]
    /\ editor = EditorInit

\* no call of truncateToTokenBudget on its own
NoCall == [text |-> <<>>, maxTokens |-> 0, result |-> <<>>, called |-> FALSE]

Init == ProgramInit /\ trunc = NoCall

\* the texts and budgets truncateToTokenBudget is called with on its own
Texts == {<<>>} \cup {<<Seg("", n)>> : n \in 1..MaxChars}
Budgets == 1..MaxBudget

\* truncateToTokenBudget(text, maxTokens) is called and returns
Truncate ==
    /\ ~trunc.called
    /\ trunc' = [trunc EXCEPT !.result = truncateToTokenBudget(trunc.text, trunc.maxTokens),
                              !.called = TRUE]
    /\ UNCHANGED <<mainVars, now, editor>>

\* the function reads nothing but its arguments: the model file is left absent
InitTrunc ==
    /\ ProgramInit
    /\ modelFileMB = 0
    /\ \E text \in Texts, maxTokens \in Budgets :
            trunc = [NoCall EXCEPT !.text = text, !.maxTokens = maxTokens]

NextTrunc == Truncate

SpecTrunc == InitTrunc /\ [][NextTrunc]_vars

InitStep(p) ==
    \/ I_entry(p) \/ I_avail(p) \/ I_import(p) \/ I_llama(p) \/ I_load(p) \/ I_cleanup(p)
DisposeStep(p) ==
    \/ D_entry(p) \/ D_disposing(p)
GenStep(p) ==
    \/ G_entry(p) \/ G_ctx(p) \/ G_prompt(p) \/ G_dispSession(p) \/ G_dispCtx(p)
AnalyzeStep(p) ==
    \/ A_entry(p) \/ A_init(p) \/ A_gen(p) \/ A_fallback(p) \/ A_ollama(p) \/ A_mistral(p)
    \/ M_fetch(p)
CheckStep(p) ==
    \/ C_entry(p) \/ C_init(p) \/ C_ollama(p)

\* the exports of localLLM.ts called concurrently
NextLLM ==
    \/ \E p \in Procs : StartInitialize(p) \/ StartGenerate(p) \/ StartDispose(p)
    \/ \E p \in Procs : InitStep(p) \/ DisposeStep(p) \/ GenStep(p) \/ G_init(p)
    \/ \E p \in Procs : Finish(p)
    \/ Tick
    \/ Download

\* the handlers of main.ts: the renderer's analyze requests, and the
\* application's connection checks and quit event.  ai:analyze enters
\* generateLocalResponse in the task in which initializeLocalLLM succeeded,
\* so the readiness step of generateLocalResponse (G_init) never runs here
Next ==
    \/ StartAnalyze(Renderer) \/ StartCheckConnection(App) \/ StartQuit(App)
    \/ \E p \in Procs : InitStep(p) \/ DisposeStep(p) \/ GenStep(p)
    \/ \E p \in Procs : AnalyzeStep(p) \/ CheckStep(p) \/ Q_disposed(p)
    \/ \E p \in Procs : Finish(p)
    \/ Tick
    \/ Download

\* the Editor component: edits, note changes, its two timers and the clock
NextEditor ==
    \/ \E html \in Htmls : HandleContentChange(html)
    \/ AnalysisTimeoutFires
    \/ AnalyzeReplyArrives
    \/ SaveTimeoutFires
    \/ \E content \in Htmls : NoteChanges(content)
    \/ ConnectionChanges
    \/ Tick

\* on-device analyze requests that overlap: a window of the renderer invokes
\* ai:analyze while an earlier invocation is still being handled
NextOverlap ==
    \/ \E p \in Procs : StartAnalyzeOnDevice(p)
    \/ \E p \in Procs : InitStep(p) \/ D_entry(p) \/ GenStep(p)
    \/ \E p \in Procs : A_entry(p) \/ A_init(p) \/ A_gen(p)
    \/ \E p \in Procs : Finish(p)
    \/ Tick

Spec == Init /\ [][Next]_vars
\* overlapping requests are studied with the model file in place
InitOverlap == Init /\ checkLocalLLMAvailable.ok

SpecOverlap == InitOverlap /\ [][NextOverlap]_vars
SpecLLM == Init /\ [][NextLLM]_vars
\* every promise awaited by initializeLocalLLM and disposeLocalLLM is settled
\* and the event loop runs every continuation that is ready
FairLLM ==
    \A p \in Procs :
        /\ SF_vars(InitStep(p) \/ DisposeStep(p))
        /\ WF_vars(GenStep(p) \/ G_init(p))
SpecLLMFair == SpecLLM /\ FairLLM

\* the editor is studied with the model file in place
InitEditor == Init /\ checkLocalLLMAvailable.ok

SpecEditor == InitEditor /\ [][NextEditor]_vars

\* ------------------------------------------------------------- properties
Success == R(TRUE, NoError)
InProgress == R(FALSE, ErrInProgress)

\* p's initializeLocalLLM call runs its entry code in this step
EntersInit(p) == cur = p /\ pc[p] = "I_entry" /\ pc'[p] # "I_entry"
\* ... and has returned to its caller by the end of the step
ReturnsAtOnce(p) == Len(stack'[p]) = Len(stack[p]) - 1 /\ rv'[p] = ini'[p].ret

\* C1: single-flight load: at most one initialization attempt is in progress
\* at any time, and while one is in progress isInitializing is set, so a call
\* that arrives then cannot start a second one.
Thm_C1_SingleFlight ==
    /\ Cardinality(Loaders) <= 1
    /\ Loaders # {} => isInitializing

\* a call arrived during a load that is still running, and started nothing
Wit_C1_TurnedAway ==
    \E p \in Procs, q \in Procs :
        /\ p # q /\ Loading(p) /\ pc[p] = "I_load"
        /\ ini[q].saw = ini[p].attempt /\ ini[q].attempt = 0 /\ ini[q].loads = 0
        /\ ini[q].ret # NoRet

\* p started an attempt from Uninitialized that succeeded; q called during it
Raced(p, q) ==
    /\ p # q
    /\ ini[p].entry = "Uninitialized" /\ ini[p].attempt # 0 /\ ini[p].ret = Success
    /\ ini[q].entry = "Initializing" /\ ini[q].saw = ini[p].attempt /\ ini[q].ret # NoRet

\* C2 as stated: of two calls racing while the manager is uninitialized, the
\* load runs once and BOTH callers receive {success: true}.
Cex_C2_BothSucceed ==
    \A p \in Procs, q \in Procs :
        Raced(p, q) => ini[p].loads = 1 /\ ini[q].ret = Success

\* C2 amended: the load runs once; the caller that started it receives
\* {success: true}; the caller that arrived during the load made no load and
\* received {success: false, 'Initialization already in progress'}.
Thm_C2_OneLoadOneSuccess ==
    \A p \in Procs, q \in Procs :
        Raced(p, q) =>
            /\ ini[p].loads = 1
            /\ ini[q].loads = 0 /\ ini[q].attempt = 0
            /\ ini[q].ret = InProgress

Wit_C2_Raced == \E p \in Procs, q \in Procs : Raced(p, q) /\ model = ini[p].attempt

\* C3: a call that arrives while an initialization is in progress returns in
\* the same task with the 'in progress' failure, without waiting for the load
\* and without changing any lifecycle state.
Thm_C3_BusyReturnsAtOnce ==
    [][\A p \in Procs :
        (EntersInit(p) /\ isInitializing) =>
            /\ ini'[p].ret = InProgress
            /\ ReturnsAtOnce(p)
            /\ UNCHANGED llmVars]_vars

\* a caller holds the 'in progress' result while the load it met is still
\* waiting for loadModel
Wit_C3_BusyReturned ==
    \E p \in Procs :
        /\ ini[p].entry = "Initializing" /\ ini[p].ret = InProgress
        /\ isInitializing /\ \E q \in Procs : pc[q] \in {"I_import", "I_llama", "I_load"}

\* q holds the result of an attempt of its own that failed
FailedAttempt(q) == ini[q].attempt # 0 /\ ini[q].ret # NoRet /\ ~ini[q].ret.ok

\* C4 as stated: a call made less than INIT_RETRY_DELAY after the moment a
\* prior initialization failed makes no new attempt and returns the cached
\* error unchanged.
Cex_C4_DelayFromFailure ==
    [][\A p \in Procs :
        (/\ EntersInit(p)
         /\ LifecycleState = "Failed"
         /\ \E q \in Procs \ {p} : FailedAttempt(q) /\ now - ini[q].failedAt < INIT_RETRY_DELAY)
        => (ini'[p].ret = R(FALSE, initError) /\ ini'[p].attempt = 0 /\ UNCHANGED llmVars)]_vars

\* C4 amended: a call made after an initialization failure and less than
\* INIT_RETRY_DELAY after the START of the failed attempt (lastInitAttempt)
\* makes no new attempt and returns the cached error unchanged.
Thm_C4_DelayFromAttemptStart ==
    [][\A p \in Procs :
        (/\ EntersInit(p)
         /\ LifecycleState = "Failed"
         /\ now - lastInitAttempt < INIT_RETRY_DELAY)
        => (/\ ini'[p].ret = R(FALSE, initError)
            /\ ReturnsAtOnce(p)
            /\ ini'[p].attempt = 0 /\ ini'[p].loads = 0
            /\ UNCHANGED llmVars)]_vars

\* a call met the Failed state some time after the failed attempt began and
\* got the cached error
Wit_C4_CachedError ==
    \E p \in Procs :
        /\ ini[p].entry = "Failed" /\ ini[p].attempt = 0
        /\ initError # NoError /\ ini[p].ret = R(FALSE, initError)
        /\ now > lastInitAttempt /\ ~isInitializing

\* C5: when generateLocalResponse returns, whatever its outcome, it has
\* disposed as many generation contexts as it created and holds none.
Thm_C5_ContextsDisposed ==
    \A p \in Procs :
        gen[p].ret # NoRet =>
            /\ gen[p].disposed = gen[p].created
            /\ ~gen[p].localContext

\* a generation that created a context and then failed has returned
Wit_C5_FailedGenerationReturned ==
    \E p \in Procs :
        /\ gen[p].ret # NoRet /\ ~gen[p].ret.ok
        /\ gen[p].created = 1 /\ gen[p].disposed = 1

\* C6: the chunking flag equals (last recorded latency > threshold), whatever
\* the earlier latencies and the flag's earlier value.
Thm_C6_FlagIsLastLatency ==
    useAdaptiveChunking = (lastResponseTime > RESPONSE_TIME_THRESHOLD)

\* a request that began with the flag set (an earlier slow generation) has
\* completed with a latency within the threshold, and the flag is cleared
Wit_C6_SlowThenFast ==
    \E p \in Procs :
        /\ pc[p] = "done" /\ req[p].handler = "analyze" /\ req[p].chunked
        /\ req[p].primary = "ok"
        /\ lastResponseTime = RESPONSE_TIME_THRESHOLD /\ ~useAdaptiveChunking

\* C7 as stated: a generation that returns an error leaves the chunking flag
\* and the last response time unchanged.
Cex_C7_FailureKeepsSignal ==
    [][\A p \in Procs :
        (cur = p /\ pc[p] = "A_gen" /\ pc'[p] # "A_gen" /\ HasError(rv[p]))
        => UNCHANGED chunkVars]_vars

OnDeviceFailed(r) == r.primary \in {"unavailable", "initFailed", "genFailed", "threw"}

\* C8 as stated: an analyze request makes a fallback call if and only if the
\* provider is 'builtin', the on-device attempt failed and the API key is
\* non-empty.
Cex_C8_FallbackScope ==
    \A p \in Procs :
        (pc[p] = "done" /\ req[p].handler = "analyze") =>
            ((Len(req[p].fallbacks) > 0) <=>
                (req[p].provider = "builtin" /\ OnDeviceFailed(req[p]) /\ HasApiKey(req[p])))

\* C9 as stated: when the model load fails during an analyze request and an
\* API key is present, exactly one fallback call is made, with the original
\* content.
Cex_C9_LoadFailureFallsBack ==
    \A p \in Procs :
        (/\ pc[p] = "done" /\ req[p].handler = "analyze"
         /\ req[p].provider = "builtin" /\ HasApiKey(req[p])
         /\ ini[p].loads = 1 /\ ini[p].ret = R(FALSE, ErrLoad))
        => req[p].fallbacks = <<UserPrompt(req[p].content)>>

\* C10: the user content of every fallback call is the full original content
\* of the request, never the excerpt prepared for the on-device model.
Thm_C10_FallbackFullContent ==
    \A p \in Procs :
        \A i \in 1..Len(req[p].fallbacks) :
            req[p].fallbacks[i] = UserPrompt(req[p].content)

\* a fallback call was made for a request whose on-device prompt was the
\* chunked excerpt
Wit_C10_FallbackAfterExcerpt ==
    \E p \in Procs :
        /\ Len(req[p].fallbacks) = 1
        /\ req[p].chunked /\ req[p].userPrompt # UserPrompt(req[p].content)

\* ---- disposeLocalLLM
\* a disposeLocalLLM call made by a caller of the module (not the cleanup of a
\* failed initialization) returns in this step
DisposeReturns(p) ==
    /\ stack[p] \in {<<"dispose">>, <<"quit", "dispose">>}
    /\ Len(stack'[p]) = Len(stack[p]) - 1
\* p's disposeLocalLLM call runs its entry code in this step
EntersDispose(p) == cur = p /\ pc[p] = "D_entry" /\ pc'[p] # "D_entry"
\* q's initialization attempt returns in this step
AttemptReturns(q) ==
    /\ pc[q] \in {"I_load", "I_cleanup"}
    /\ ini[q].ret = NoRet /\ ini'[q].ret # NoRet

\* C11 as stated: disposeLocalLLM called in any lifecycle state leaves the
\* manager Uninitialized once the call and any initialization in flight have
\* finished: no handle, initialized false, and the next initializeLocalLLM
\* starts a fresh attempt instead of returning a cached failure or success.
Cex_C11_DisposeResets ==
    [][/\ \A p \in Procs :
            (DisposeReturns(p) /\ Loaders = {}) =>
                (LifecycleState' = "Uninitialized" /\ InitGuard' = "start")
       /\ \A q \in Procs :
            (/\ AttemptReturns(q)
             /\ \E p \in Procs : /\ pc[p] = "done" /\ req[p].handler = "dispose"
                                  /\ req[p].during = ini[q].attempt)
            => (LifecycleState' = "Uninitialized" /\ InitGuard' = "start")]_vars

\* C12: disposeLocalLLM is idempotent.  Every call leaves no handle, the
\* initialized flag cleared and the rest of the lifecycle state as it was; a
\* call made in the state a call leaves behind changes nothing, returns in
\* the same task and does not invoke dispose on a model handle.
Thm_C12_DisposeIdempotent ==
    [][\A p \in Procs :
        /\ (Len(stack[p]) > 0 /\ Top(p) = "dispose" /\ Len(stack'[p]) < Len(stack[p])) =>
                /\ model' = NullModel /\ ~isInitialized'
                /\ UNCHANGED <<llamaModule, llama, isInitializing, initError, lastInitAttempt>>
        /\ (EntersDispose(p) /\ model = NullModel /\ ~isInitialized) =>
                /\ UNCHANGED llmVars
                /\ pc'[p] # "D_disposing"
                /\ Len(stack'[p]) = Len(stack[p]) - 1]_vars

\* a second disposeLocalLLM call was made right after one that released the
\* handle: it released nothing and the manager is as the first call left it
Wit_C12_SecondDispose ==
    \E p \in Procs :
        /\ pc[p] = "done" /\ req[p].handler = "dispose"
        /\ req[p].prior # NullModel /\ req[p].released = NullModel
        /\ LifecycleState = "Uninitialized"

\* ---- unusable model file
Unusable(sizeMB) == sizeMB < MIN_MODEL_SIZE_MB
FileError(sizeMB) == IF sizeMB = 0 THEN ErrNotFound ELSE ErrCorrupted

Typed(val) ==
    /\ DOMAIN val = {"ok", "error"}
    /\ val.ok \in BOOLEAN
    /\ val.ok <=> val.error = NoError

\* C14: no failure escapes as an exception.  Whatever the outcome of the
\* availability check, the import, the runtime start, the model load, the
\* context and session creation, the prompt and the disposals,
\* initializeLocalLLM, generateLocalResponse and the ai:analyze handler
\* return a typed result and never throw to their caller.
Thm_C14_NoExceptionEscapes ==
    \A p \in Procs :
        /\ Typed(ini[p].ret)
        /\ Typed(gen[p].ret)
        /\ (req[p].handler = "analyze" /\ pc[p] = "done") => Typed(rv[p])
        /\ pc[p] \in {"A_init", "A_gen", "A_fallback", "G_init", "I_cleanup"} => ~IsThrown(rv[p])

\* the availability check threw inside the ai:analyze handler, and the
\* handler returned its typed failure
Wit_C14_ThrowCaught ==
    \E p \in Procs :
        /\ pc[p] = "done" /\ req[p].handler = "analyze"
        /\ req[p].errors = <<Err("builtin", ErrStat)>>
        /\ rv[p] = R(FALSE, ErrAnalysis)

\* ---- failure reporting
\* the provider a handler result names as the origin of its error; the
\* results of ai:analyze are {feedback, error} and carry no such field
ProviderTag(val) == IF "provider" \in DOMAIN val THEN val.provider ELSE "none"

\* C15 as stated: a failed analyze request returns exactly one error, the one
\* that occurred last (the fallback's when a fallback was attempted and also
\* failed, the primary's otherwise), tagged with the provider that produced
\* it.
Cex_C15_LastErrorTagged ==
    \A p \in Procs :
        (pc[p] = "done" /\ req[p].handler = "analyze" /\ ~rv[p].ok) =>
            /\ Len(req[p].errors) > 0
            /\ LET last == req[p].errors[Len(req[p].errors)]
               IN /\ rv[p].error = last.error
                  /\ ProviderTag(rv[p]) = last.by

Thm_C17_RetryAfterDelay ==
    [][\A p \in Procs :
        /\ (/\ EntersInit(p)
            /\ LifecycleState = "Failed"
            /\ now - lastInitAttempt >= INIT_RETRY_DELAY)
           => (/\ ini'[p].attempt # 0 /\ pc'[p] = "I_avail"
               /\ isInitializing' /\ lastInitAttempt' = now)
        /\ (pc[p] = "I_load" /\ ini[p].entry = "Failed" /\ ini'[p].ret = Success)
           => (/\ LifecycleState' = "Ready"
               /\ model' = ini[p].attempt /\ initError' = NoError)]_vars

\* a call that met the Failed state after the delay made a new attempt,
\* which succeeded: the manager is Ready with no cached error
Wit_C17_RetrySucceeded ==
    \E p \in Procs :
        /\ ini[p].entry = "Failed" /\ ini[p].loads = 1 /\ ini[p].ret = Success
        /\ LifecycleState = "Ready" /\ model = ini[p].attempt /\ initError = NoError

\* C18: initialization failure leaves no partial state.  When an attempt
\* returns its failure the model reference is null and initialized is
\* false, and in the Failed state no model handle is held.
Thm_C18_NoPartialState ==
    /\ [](LifecycleState = "Failed" => (model = NullModel /\ ~isInitialized))
    /\ [][\A p \in Procs :
            (pc[p] = "I_cleanup" /\ ini'[p].ret # NoRet) =>
                (~ini'[p].ret.ok /\ model' = NullModel /\ ~isInitialized')]_vars

\* an attempt whose loadModel call failed has returned; the manager is Failed
\* and holds no handle
Wit_C18_LoadFailed ==
    \E p \in Procs :
        /\ ini[p].loads = 1 /\ ini[p].ret = R(FALSE, ErrLoad)
        /\ LifecycleState = "Failed" /\ initError = ErrLoad
        /\ model = NullModel /\ ~isInitialized

\* ---- Ready
\* p takes a step / p is inside disposeLocalLLM
Acts(p) == pc'[p] # pc[p] \/ stack'[p] # stack[p]
InDispose(p) == Len(stack[p]) > 0 /\ Top(p) = "dispose"

\* C19: Ready is stable until dispose.  While the manager is Ready, an
\* initializeLocalLLM call returns success without a load, a
\* generateLocalResponse call goes straight to its own generation, and no
\* step other than a step of disposeLocalLLM - in particular no generation
\* that ends in an error - changes the handle, the flags or the cached error.
Thm_C19_ReadyStable ==
    [][LifecycleState = "Ready" =>
        /\ initError = NoError /\ llamaModule
        /\ \A p \in Procs :
            EntersInit(p) => (/\ ini'[p].ret = Success /\ ReturnsAtOnce(p)
                              /\ ini'[p].attempt = 0 /\ ini'[p].loads = 0)
        /\ \A p \in Procs :
            (cur = p /\ pc[p] = "G_entry" /\ pc'[p] # "G_entry")
                => (pc'[p] = "G_ctx" /\ stack'[p] = stack[p])
        /\ (\A p \in Procs : Acts(p) => ~InDispose(p)) => UNCHANGED llmVars]_vars

\* a generation entered after another one had failed on the same handle ran
\* its own prompt and succeeded; the manager is still Ready
Wit_C19_GenerationAfterError ==
    \E p \in Procs :
        /\ gen[p].after /\ gen[p].prompts = 1 /\ gen[p].ret = Success
        /\ ini[p].entry = "none"
        /\ LifecycleState = "Ready"

\* ---- unusable handle
\* unnamed/part_004 lines 197-199 (an earlier generateLocalResponse): the
\* error texts taken to mean that the handle or the context is unusable, those
\* that include 'context' or 'model'
IndicatesUnusable(msg) == msg \in {ErrContext}

\* C20 as stated: when a generation fails with an error whose text indicates
\* that the handle or context is unusable, the manager disposes the handle
\* and is Uninitialized when the call returns.
Cex_C20_ResetOnUnusable ==
    [][\A p \in Procs :
        (/\ gen[p].ret = NoRet /\ gen'[p].ret # NoRet
         /\ IndicatesUnusable(gen'[p].ret.error))
        => (model' = NullModel /\ ~isInitialized' /\ LifecycleState' = "Uninitialized")]_vars

\* ---- readiness step of generateLocalResponse
\* C21: when initializeLocalLLM returns success = false to
\* generateLocalResponse (a failed load, a cached failure or 'already in
\* progress'), the call returns that same error in the same task: no
\* generation context is created and no inference call is made.
Thm_C21_FailedReadinessReturns ==
    /\ [](\A p \in Procs :
            (req[p].handler = "gen" /\ ini[p].ret # NoRet /\ ~ini[p].ret.ok) =>
                /\ pc[p] \in {"G_init", "done"}
                /\ gen[p].created = 0 /\ gen[p].prompts = 0 /\ ~gen[p].localContext
                /\ pc[p] = "done" => gen[p].ret = R(FALSE, ini[p].ret.error))
    /\ [][\A p \in Procs :
            (cur = p /\ pc[p] = "G_init" /\ pc'[p] # "G_init" /\ ~rv[p].ok) =>
                /\ gen'[p].ret = R(FALSE, rv[p].error)
                /\ rv'[p] = gen'[p].ret
                /\ Len(stack'[p]) = Len(stack[p]) - 1]_vars

\* one generateLocalResponse call returned the error of its own failed load,
\* another the 'in progress' error of the readiness step; neither created a
\* context or prompted
Wit_C21_ReadinessErrorsReturned ==
    \E p \in Procs, q \in Procs :
        /\ req[p].handler = "gen" /\ ini[p].loads = 1
        /\ gen[p].ret = R(FALSE, ErrLoad) /\ gen[p].created = 0 /\ gen[p].prompts = 0
        /\ req[q].handler = "gen" /\ ini[q].entry = "Initializing"
        /\ gen[q].ret = InProgress /\ gen[q].created = 0 /\ gen[q].prompts = 0

\* ---- dispose paths
\* C22: dispose paths never throw.  When model.dispose() rejects,
\* disposeLocalLLM still clears the model reference and the initialized flag
\* and returns normally; when the disposal of the session or of the context
\* rejects, generateLocalResponse still returns the result it had reached.
Thm_C22_DisposeErrorsSwallowed ==
    /\ [](\A p \in Procs :
            /\ (gen[p].ret # NoRet /\ gen[p].result # NoRet) => gen[p].ret = gen[p].result
            /\ ~IsThrown(gen[p].ret)
            /\ pc[p] \in {"I_cleanup", "Q_disposed"} => ~IsThrown(rv[p])
            /\ (pc[p] = "done" /\ req[p].handler \in {"dispose", "quit"}) =>
                    (~IsThrown(rv[p]) /\ rv[p].ok))
    /\ [][\A p \in Procs :
            (pc[p] = "D_disposing" /\ pc'[p] # "D_disposing") =>
                /\ model' = NullModel /\ ~isInitialized'
                /\ Len(stack'[p]) = Len(stack[p]) - 1]_vars

\* a disposeLocalLLM call whose model.dispose() rejected has returned with
\* the reference cleared, and a generation whose session or context disposal
\* rejected has returned its successful response
Wit_C22_RejectedDisposals ==
    \E p \in Procs, q \in Procs :
        /\ pc[p] = "done" /\ req[p].handler = "dispose" /\ req[p].swallowed
        /\ req[p].released # NullModel /\ model = NullModel /\ ~isInitialized
        /\ pc[q] = "done" /\ req[q].handler = "gen" /\ req[q].swallowed
        /\ gen[q].ret = Success /\ gen[q].disposed = 1

\* ---- no hidden retries
\* the readiness step and model.createContext succeeded in p's call
ContextCreated(p) ==
    gen[p].result \notin {NoRet, R(FALSE, ErrNullModel), R(FALSE, ErrContext)}
\* ... and so did getSequence and the construction of the session
SessionCreated(p) == ContextCreated(p) /\ gen[p].result # R(FALSE, ErrSequence)

\* C23 as stated: one generateLocalResponse invocation makes at most one
\* prompt call and creates at most one context - exactly one of each when
\* the readiness step and context creation succeed - and one
\* initializeLocalLLM invocation makes at most one load attempt.
Cex_C23_ExactlyOnePrompt ==
    \A p \in Procs :
        /\ gen[p].prompts <= 1 /\ gen[p].created <= 1 /\ ini[p].loads <= 1
        /\ (gen[p].ret # NoRet /\ ContextCreated(p)) =>
                (gen[p].created = 1 /\ gen[p].prompts = 1)

\* C23 amended: at most one prompt call, one context and one load attempt
\* per invocation; exactly one context when the readiness step and context
\* creation succeed, and exactly one prompt call when in addition the
\* sequence and the session were obtained from that context.
Thm_C23_NoHiddenRetries ==
    \A p \in Procs :
        /\ gen[p].prompts <= 1 /\ gen[p].created <= 1 /\ ini[p].loads <= 1
        /\ (gen[p].ret # NoRet /\ ContextCreated(p)) => gen[p].created = 1
        /\ (gen[p].ret # NoRet /\ SessionCreated(p)) => gen[p].prompts = 1
        /\ (gen[p].ret # NoRet /\ ~SessionCreated(p)) => gen[p].prompts = 0

\* a generation whose prompt failed has returned after that one prompt call,
\* and a generation whose context yielded no sequence has returned after
\* creating one context and prompting never
Wit_C23_FailedPromptNotRetried ==
    \E p \in Procs, q \in Procs :
        /\ req[p].handler = "gen" /\ ini[p].loads = 1 /\ ini[p].ret = Success
        /\ gen[p].ret = R(FALSE, ErrPrompt) /\ gen[p].prompts = 1 /\ gen[p].created = 1
        /\ req[q].handler = "gen"
        /\ gen[q].ret = R(FALSE, ErrSequence) /\ gen[q].prompts = 0 /\ gen[q].created = 1

\* ---- overlapping on-device requests
\* the generation of p's on-device request has completed and p's handler
\* has applied its latency to the chunking flag
Completed(p) ==
    /\ req[p].handler = "analyze" /\ req[p].provider = "builtin"
    /\ req[p].primary \in {"ok", "genFailed"}
Latency(p) == req[p].completedAt - req[p].startTime

\* C24: completion order decides the flag.  The handler of an on-device
\* request applies (latency > threshold) of its own generation in the task
\* in which that generation completes, and nothing else changes the flag; so
\* once a request has completed the flag is the one of its latency, also
\* when a request that was started later completed before it.
Thm_C24_CompletionOrder ==
    /\ [](\A p \in Procs :
            (Completed(p) /\ pc[p] = "done" /\ Len(req[p].fallbacks) = 0) =>
                /\ useAdaptiveChunking = (Latency(p) > RESPONSE_TIME_THRESHOLD)
                /\ lastResponseTime = Latency(p))
    /\ [][/\ \A p \in Procs :
                (Completed(p)' /\ ~Completed(p)) =>
                    /\ useAdaptiveChunking' = (now - req[p].startTime > RESPONSE_TIME_THRESHOLD)
                    /\ lastResponseTime' = now - req[p].startTime
          /\ (\A p \in Procs : ~(Completed(p)' /\ ~Completed(p))) => UNCHANGED chunkVars]_vars

\* a request that was started after p's completed during p's generation,
\* within the threshold; p completed last, above the threshold: the flag is
\* set, as p's latency says
Wit_C24_StartedFirstCompletedLast ==
    \E p \in Procs :
        /\ Completed(p) /\ pc[p] = "done"
        /\ req[p].passed # <<>>
        /\ req[p].startTime < req[p].passed[1]
        /\ req[p].passed[2] - req[p].passed[1] <= RESPONSE_TIME_THRESHOLD
        /\ req[p].passed[2] < req[p].completedAt
        /\ Latency(p) > RESPONSE_TIME_THRESHOLD
        /\ useAdaptiveChunking

\* ---- requests of one editing session
\* C25 as stated: the editor never issues a new analyze request while a
\* previous analyze request of the same session is still in flight.
Cex_C25_SequentialRequests == editor.outstanding <= 1

\* ---- what a request submits
\* p's analyze request has prepared its prompt
Prepared(p) == req[p].handler = "analyze" /\ req[p].userPrompt # <<>>
\* the section-scoped, token-truncated excerpt of the request
Excerpt(r) ==
    truncateToTokenBudget(extractCurrentSection(r.content, r.h2), SMALL_MAX_CONTENT_TOKENS)
\* the flag is the outcome of the most recent completed on-device generation
SlowBefore == lastResponseTime > RESPONSE_TIME_THRESHOLD

\* C26 as stated: an on-device request submits the excerpt if and only if the
\* chunking flag was true when it started, otherwise the full content;
\* requests to the local-HTTP and cloud-API providers submit the content
\* unmodified.
Cex_C26_FullContentOtherwise ==
    \A p \in Procs :
        Prepared(p) =>
            req[p].userPrompt =
                UserPrompt(IF req[p].provider = "builtin" /\ req[p].chunked
                           THEN Excerpt(req[p]) ELSE req[p].content)

\* C26 amended: an on-device request submits the excerpt if the chunking flag
\* was true when it started (the most recent completed on-device generation
\* was slower than the threshold), and otherwise the content truncated to a
\* budget of 1500 tokens, which is the full content only when that fits;
\* requests to the other providers submit the content unmodified and never
\* change the flag.
Thm_C26_ChunkingDecision ==
    /\ [](\A p \in Procs :
            Prepared(p) =>
                /\ req[p].provider = "builtin" /\ req[p].chunked =>
                        req[p].userPrompt = UserPrompt(Excerpt(req[p]))
                /\ req[p].provider = "builtin" /\ ~req[p].chunked =>
                        /\ req[p].userPrompt =
                                UserPrompt(truncateToTokenBudget(req[p].content, FULL_CONTENT_TOKENS))
                        /\ estimateTokens(req[p].content) <= FULL_CONTENT_TOKENS =>
                                req[p].userPrompt = UserPrompt(req[p].content)
                /\ req[p].provider # "builtin" => req[p].userPrompt = UserPrompt(req[p].content)
                /\ (req[p].primary = "none" /\ pc[p] # "done") => req[p].chunked = SlowBefore)
    /\ [][\A p \in Procs :
            (Acts(p) /\ req[p].handler = "analyze" /\ req[p].provider # "builtin")
                => UNCHANGED chunkVars]_vars

\* an on-device request that started with the flag cleared, for a note above
\* the budget, has completed: its prompt was not the full content
Wit_C26_FullContentTruncated ==
    \E p \in Procs :
        /\ Completed(p) /\ ~req[p].chunked
        /\ estimateTokens(req[p].content) > FULL_CONTENT_TOKENS
        /\ req[p].userPrompt # UserPrompt(req[p].content)
        /\ estimateTokens(Tail(req[p].userPrompt)) <= FULL_CONTENT_TOKENS

\* ---- status
\* C27: status consistency.  In every state between two tasks,
\* initialized = true implies that a model handle is held, that no
\* initialization is in progress and that no error is cached; so
\* getLocalLLMStatus never reports initialized together with initializing
\* or with an error.
Thm_C27_StatusConsistent ==
    (cur = NoProc /\ isInitialized) =>
        /\ model # NullModel
        /\ ~isInitializing /\ Loaders = {}
        /\ initError = NoError
        /\ ~getLocalLLMStatus.initializing /\ getLocalLLMStatus.error = NoError

\* the manager is initialized after an attempt that met the Failed state,
\* while another caller's generation is waiting for its prompt
Wit_C27_InitializedAfterFailure ==
    /\ cur = NoProc /\ getLocalLLMStatus.initialized
    /\ \E p \in Procs : ini[p].entry = "Failed" /\ ini[p].ret = Success /\ model = ini[p].attempt
    /\ \E q \in Procs : pc[q] = "G_prompt"

\* ---- termination of an attempt
\* C28: initializing is never stuck.  The flag is set only while an attempt
\* is running, so no call is turned away with 'in progress' when no load is
\* running; and when the awaited steps terminate every attempt resets the
\* flag, on success and on failure.
Thm_C28_InitializingNotStuck ==
    /\ [](isInitializing <=> Loaders # {})
    /\ [](\A p \in Procs :
            (ini[p].ret = InProgress /\ ini[p].entry = "Initializing") => ini[p].saw # 0)
    /\ (isInitializing ~> ~isInitializing)

\* an attempt has failed and returned, and a later call, made when no load
\* was running, was not turned away: it ran an attempt of its own to its end
Wit_C28_FlagResetAfterFailure ==
    \E p \in Procs, q \in Procs :
        /\ p # q /\ FailedAttempt(p)
        /\ ini[q].entry = "Failed" /\ ini[q].attempt # 0 /\ ini[q].ret # NoRet
        /\ ~isInitializing

\* ---- handle in use
\* the disposal of the model handle h has begun (model.dispose() was called)
DisposalBegun(h) == \E p \in Procs : req[p].released = h
\* q's generation is creating its context from, or prompting on, its handle
UsesHandle(q) == pc[q] \in {"G_ctx", "G_prompt"}

\* C29 as stated: no generation context is created from, and no inference
\* runs on, a model handle whose disposal has begun, and a handle is never
\* disposed while a context created from it is in use.
Cex_C29_NoUseOfDisposedHandle ==
    \A q \in Procs : UsesHandle(q) => ~DisposalBegun(gen[q].handle)

\* ---- token budget
\* C30 as stated: for every text and every maxTokens >= 1 the string
\* returned by truncateToTokenBudget satisfies estimateTokens(result) <=
\* maxTokens, and the text is returned unchanged exactly when
\* estimateTokens(text) <= maxTokens.
Cex_C30_FitsBudget ==
    trunc.called =>
        /\ estimateTokens(trunc.result) <= trunc.maxTokens
        /\ (trunc.result = trunc.text) <=> (estimateTokens(trunc.text) <= trunc.maxTokens)

====
